---- MODULE Spec2Model ----
(***************************************************************************)
(* Model of App.py, the Supply Chain Delay Analysis dashboard.             *)
(*                                                                         *)
(* App.py is a script that the UI framework runs from top to bottom after  *)
(* every user interaction (page selection, upload, removal of the file).   *)
(* One run reads the sidebar widgets, loads and feature-engineers the      *)
(* uploaded CSV and renders the selected page.  The state is the widgets'  *)
(* values together with what the last run left behind: the script's        *)
(* variables df, vendors and managers, the elements it rendered, the       *)
(* steps it took and how it ended.                                         *)
(*                                                                         *)
(* Values of the dataframe library are modelled as follows.                *)
(*   - a number that may be missing is [nan, v] (NaN or the integer v);    *)
(*   - a raw cell of a date column is [k, y, m, d, h]: an empty cell, a    *)
(*     text that is no date, or the text of a date y-m-d h:00;             *)
(*   - a parsed date is [nat, t]: NaT, or t hours since 1970-01-01;        *)
(*   - a mean is [nan, num, den], the exact fraction num/den.              *)
(***************************************************************************)
EXTENDS Integers, Sequences, FiniteSets, TLC

\* ------------------------------------------------------------------------
\* Bounds of the model
\* ------------------------------------------------------------------------
\* Longest table of the date family (one free row among fixed filler rows).
MaxRows == 2
\* Dates of the date family are 2020-12-30 plus 0..MaxDayOffset days.
MaxDayOffset == 3
\* Longest table of the grouping family (one vendor per row).
MaxGroupRows == 12
\* Largest multiplier of the delay pattern of the grouping family.
MaxMult == 2

\* ------------------------------------------------------------------------
\* Names used by the script
\* ------------------------------------------------------------------------
PAGES ==
    <<"Welcome", "Delay & Pricing Patterns", "Top Contributors", "Conclusion & Insights">>

DateCols ==
    <<"Delivered to Client Date", "Scheduled Delivery Date">>

Metrics ==
    <<"delivery_delay", "Pack Price", "Line Item Value">>

\* The columns the script ever refers to in an uploaded file.
Columns ==
    {"Delivered to Client Date", "Scheduled Delivery Date", "Shipment Mode",
     "Pack Price", "Line Item Value", "Vendor", "Managed By"}

\* head(10)
TopN == 10

\* ------------------------------------------------------------------------
\* Values
\* ------------------------------------------------------------------------
NaN == [nan |-> TRUE, v |-> 0]

Num(x) == [nan |-> FALSE, v |-> x]

EmptyCell == [k |-> "empty", y |-> 0, m |-> 0, d |-> 0, h |-> 0]

TextCell == [k |-> "text", y |-> 0, m |-> 0, d |-> 0, h |-> 0]

DateCell(y, m, d, h) == [k |-> "date", y |-> y, m |-> m, d |-> d, h |-> h]

NaT == [nat |-> TRUE, t |-> 0]

Ts(t) == [nat |-> FALSE, t |-> t]

NoFile == [present |-> FALSE, columns |-> {}, rows |-> <<>>]

NoDf == [present |-> FALSE, columns |-> {}, rows |-> <<>>]

NoAgg == [present |-> FALSE, rows |-> <<>>]

Elem(kind, arg) == [kind |-> kind, arg |-> arg]

\* ------------------------------------------------------------------------
\* pd.to_datetime
\* ------------------------------------------------------------------------
IsLeap(y) == (y % 4 = 0 /\ y % 100 # 0) \/ y % 400 = 0

DaysInMonth(y, m) ==
    IF m = 2 THEN (IF IsLeap(y) THEN 29 ELSE 28)
    ELSE IF m \in {4, 6, 9, 11} THEN 30 ELSE 31

\* Days from 1970-01-01 to the first of January of year y (y >= 1970).
DaysBeforeYear(y) ==
    365 * (y - 1970) + ((y - 1969) \div 4) - ((y - 1901) \div 100) + ((y - 1601) \div 400)

RECURSIVE DaysBeforeMonth(_, _)
DaysBeforeMonth(y, m) ==
    IF m <= 1 THEN 0 ELSE DaysBeforeMonth(y, m - 1) + DaysInMonth(y, m - 1)

\* A cell to_datetime accepts: an empty cell, or the text of a date that exists.
Parseable(c) ==
    \/ c.k = "empty"
    \/ /\ c.k = "date"
       /\ c.m \in 1..12
       /\ c.d \in 1..DaysInMonth(c.y, c.m)
       /\ c.h \in 0..23

\* The timestamp of a parseable cell; an empty cell becomes NaT.
Timestamp(c) ==
    IF c.k = "empty" THEN NaT
    ELSE Ts(24 * (DaysBeforeYear(c.y) + DaysBeforeMonth(c.y, c.m) + (c.d - 1)) + c.h)

\* to_datetime raises on the first value it cannot parse.
ColumnParses(d, col) ==
    \A i \in 1..Len(d.rows) : Parseable(d.rows[i][col])

to_datetime(d, col) ==
    [d EXCEPT !.rows =
        [i \in 1..Len(d.rows) |-> [d.rows[i] EXCEPT ![col] = Timestamp(d.rows[i][col])]]]

\* ------------------------------------------------------------------------
\* One run of the script
\* ------------------------------------------------------------------------
\* The sidebar widgets, rendered at the top of every run.
Sidebar ==
    <<Elem("sidebar.title", "Navigation"), Elem("sidebar.radio", "Select Page:"),
      Elem("sidebar.title", "Upload Dataset"), Elem("sidebar.file_uploader", "Upload your CSV")>>

\* The run before the file is looked at.  status is "running" until the script
\* reaches its end ("done"), calls st.stop() ("stopped") or raises ("exception").
StartRun ==
    [df |-> NoDf, vendors |-> NoAgg, managers |-> NoAgg, sidebar |-> Sidebar,
     out |-> <<>>, log |-> <<>>, status |-> "running"]

Step(step, col) == [step |-> step, col |-> col]

\* An uncaught exception ends the run; the framework shows it on the page.
Raise(rs, name) ==
    [rs EXCEPT !.out = Append(@, Elem("exception", name)), !.status = "exception"]

read_csv(f) == [present |-> TRUE, columns |-> f.columns, rows |-> f.rows]

\* One iteration of the loop over the two date columns.
EnsureDateColumn(rs, col) ==
    IF rs.status # "running" THEN rs
    ELSE IF col \in rs.df.columns
         THEN LET tried == [rs EXCEPT !.log = Append(Append(@, Step("check", col)), Step("parse", col))]
              IN  IF ColumnParses(rs.df, col)
                  THEN [tried EXCEPT !.df = to_datetime(rs.df, col)]
                  ELSE Raise(tried, "DateParseError")
         ELSE [rs EXCEPT !.log = Append(@, Step("check", col)),
                         !.out = Append(@, Elem("error", col)),
                         !.status = "stopped"]

\* Variant: the days of a timedelta rounded towards zero.
TimedeltaDays_TowardsZero(a, b) ==
    IF a.nat \/ b.nat THEN NaN
    ELSE IF a.t >= b.t THEN Num((a.t - b.t) \div 24) ELSE Num(-((b.t - a.t) \div 24))

\* (delivered - scheduled).dt.days: the days of a timedelta are its floor.
TimedeltaDays(a, b) ==
    IF a.nat \/ b.nat THEN NaN ELSE Num((a.t - b.t) \div 24)

\* Variant: the threshold taken as d < 0.
DelayLabel_Strict(d) ==
    IF ~d.nan /\ d.v < 0 THEN "Early/On-Time" ELSE "Delayed"

\* lambda d: "Early/On-Time" if d <= 0 else "Delayed"; NaN <= 0 is false.
DelayLabel(d) ==
    IF ~d.nan /\ d.v <= 0 THEN "Early/On-Time" ELSE "Delayed"

\* df[name] = values
WithColumn(d, name, values) ==
    [d EXCEPT !.columns = @ \cup {name},
              !.rows = [i \in 1..Len(d.rows) |->
                          [c \in DOMAIN d.rows[i] \cup {name} |->
                              IF c = name THEN values[i] ELSE d.rows[i][c]]]]

FeatureEngineer(rs) ==
    IF rs.status # "running" THEN rs
    ELSE LET delay == [i \in 1..Len(rs.df.rows) |->
                          TimedeltaDays(rs.df.rows[i][DateCols[1]], rs.df.rows[i][DateCols[2]])]
             d1 == WithColumn(rs.df, "delivery_delay", delay)
             label == [i \in 1..Len(d1.rows) |-> DelayLabel(d1.rows[i]["delivery_delay"])]
         IN  [rs EXCEPT !.df = WithColumn(d1, "Delay Label", label),
                        !.log = Append(@, Step("engineer", "delivery_delay"))]

ReadAndFeatureEngineer(f, rs) ==
    IF f.present
    THEN FeatureEngineer(
            EnsureDateColumn(
               EnsureDateColumn([rs EXCEPT !.df = read_csv(f)], DateCols[1]),
               DateCols[2]))
    ELSE [rs EXCEPT !.df = NoDf]

\* ------------------------------------------------------------------------
\* groupby(key)[metrics].mean().sort_values("delivery_delay", ascending=False)
\*     .head(10).reset_index()
\* ------------------------------------------------------------------------
\* groupby drops the rows whose key is missing.
GroupKeys(d, key) ==
    {d.rows[i][key].v : i \in {j \in 1..Len(d.rows) : ~d.rows[j][key].nan}}

\* Rows of group g that have a value of the metric.
Members(d, key, g, metric) ==
    {i \in 1..Len(d.rows) : d.rows[i][key] = Num(g) /\ ~d.rows[i][metric].nan}

RECURSIVE SumOver(_, _, _)
SumOver(d, metric, S) ==
    IF S = {} THEN 0
    ELSE LET i == CHOOSE x \in S : TRUE
         IN  d.rows[i][metric].v + SumOver(d, metric, S \ {i})

\* mean() skips missing values; the mean of none is NaN.
GroupMean(d, key, g, metric) ==
    LET S == Members(d, key, g, metric)
    IN  IF S = {} THEN [nan |-> TRUE, num |-> 0, den |-> 1]
        ELSE [nan |-> FALSE, num |-> SumOver(d, metric, S), den |-> Cardinality(S)]

\* groupby lists the groups by ascending key.
SortedKeys(S) ==
    [p \in 1..Cardinality(S) |-> CHOOSE k \in S : Cardinality({j \in S : j < k}) = p - 1]

MeanGt(a, b) == ~a.nan /\ ~b.nan /\ a.num * b.den > b.num * a.den

MeanEq(a, b) == ~a.nan /\ ~b.nan /\ a.num * b.den = b.num * a.den

\* sort_values(ascending=False): larger first, ties in their given order, NaN last.
Precedes(ms, i, j) ==
    IF ms[i].nan THEN ms[j].nan /\ i < j
    ELSE ms[j].nan \/ MeanGt(ms[i], ms[j]) \/ (MeanEq(ms[i], ms[j]) /\ i < j)

\* Variant: sort_values with the default ascending=True.
SortDescending_Ascending(rows, by) ==
    LET n == Len(rows)
        ms == [i \in 1..n |-> rows[i][by]]
        before(i, j) == IF ms[i].nan THEN ms[j].nan /\ i < j
                        ELSE ms[j].nan \/ MeanGt(ms[j], ms[i]) \/ (MeanEq(ms[i], ms[j]) /\ i < j)
    IN  [p \in 1..n |->
            rows[CHOOSE i \in 1..n : Cardinality({j \in 1..n : before(j, i)}) = p - 1]]

SortDescending(rows, by) ==
    LET n == Len(rows)
        ms == [i \in 1..n |-> rows[i][by]]
    IN  [p \in 1..n |->
            rows[CHOOSE i \in 1..n : Cardinality({j \in 1..n : Precedes(ms, j, i)}) = p - 1]]

head(rows, n) ==
    SubSeq(rows, 1, IF Len(rows) < n THEN Len(rows) ELSE n)

\* The aggregated frame: one row per group, the key as a column after reset_index.
Aggregate(d, key) ==
    LET keys == SortedKeys(GroupKeys(d, key))
        grouped == [p \in 1..Len(keys) |->
                      [c \in {key} \cup {Metrics[q] : q \in 1..Len(Metrics)} |->
                          IF c = key THEN Num(keys[p]) ELSE GroupMean(d, key, keys[p], c)]]
    IN  [present |-> TRUE, rows |-> head(SortDescending(grouped, "delivery_delay"), TopN)]

\* ------------------------------------------------------------------------
\* The pages
\* ------------------------------------------------------------------------
Render(rs, kind, arg) == [rs EXCEPT !.out = Append(@, Elem(kind, arg))]

\* st.stop()
Stop(rs) == [rs EXCEPT !.status = "stopped"]

\* px.box / px.bar followed by st.plotly_chart: the plotting call raises a
\* ValueError when an argument names a column the frame does not have.
PlotChart(rs, fig, columns, needed) ==
    IF rs.status # "running" THEN rs
    ELSE IF needed \subseteq columns
         THEN Render(rs, "plotly_chart", fig)
         ELSE Raise(rs, "ValueError")

WelcomePage(p, rs) ==
    IF rs.status # "running" \/ p # "Welcome" THEN rs
    ELSE Render(Render([rs EXCEPT !.log = Append(@, Step("page", p))],
                       "title", "Supply Chain Delay & Pricing Analysis"),
                "markdown", "Why this app?")

\* Variant: the warning is shown but the run is not stopped.
DataPageHeader_NoStop(rs, p, title) ==
    LET titled == Render([rs EXCEPT !.log = Append(@, Step("page", p))], "title", title)
    IN  IF ~titled.df.present
        THEN Render(titled, "warning", "Please upload a dataset to view this analysis.")
        ELSE titled

\* Title, then the guard that both data pages share.
DataPageHeader(rs, p, title) ==
    LET titled == Render([rs EXCEPT !.log = Append(@, Step("page", p))], "title", title)
    IN  IF ~titled.df.present
        THEN Stop(Render(titled, "warning", "Please upload a dataset to view this analysis."))
        ELSE titled

DelayPricingPage(p, rs) ==
    IF rs.status # "running" \/ p # "Delay & Pricing Patterns" THEN rs
    ELSE LET guarded == DataPageHeader(rs, p, "Delay & Pricing Patterns")
         IN  IF guarded.status # "running" THEN guarded
             ELSE LET cols == guarded.df.columns
                      text == Render(guarded, "markdown", "Focus KPIs")
                      delay == PlotChart(text, "fig_delay", cols, {"Delay Label", "delivery_delay"})
                      pack == IF "Shipment Mode" \in cols
                              THEN PlotChart(delay, "fig_pack", cols,
                                             {"Shipment Mode", "Pack Price", "Delay Label"})
                              ELSE delay
                  IN  PlotChart(pack, "fig_value", cols, {"Delay Label", "Line Item Value"})

\* groupby(key)[metrics] raises a KeyError when a metric column is absent.
VendorsBlock(rs) ==
    IF rs.status # "running" \/ "Vendor" \notin rs.df.columns THEN rs
    ELSE IF ~({Metrics[q] : q \in 1..Len(Metrics)} \subseteq rs.df.columns)
         THEN Raise(rs, "KeyError")
         ELSE PlotChart([rs EXCEPT !.vendors = Aggregate(rs.df, "Vendor")], "fig_vendors",
                        {"Vendor"} \cup {Metrics[q] : q \in 1..Len(Metrics)},
                        {"Vendor"} \cup {Metrics[q] : q \in 1..Len(Metrics)})

ManagersBlock(rs) ==
    IF rs.status # "running" \/ "Managed By" \notin rs.df.columns THEN rs
    ELSE IF ~({Metrics[q] : q \in 1..Len(Metrics)} \subseteq rs.df.columns)
         THEN Raise(rs, "KeyError")
         ELSE PlotChart([rs EXCEPT !.managers = Aggregate(rs.df, "Managed By")], "fig_managers",
                        {"Managed By"} \cup {Metrics[q] : q \in 1..Len(Metrics)},
                        {"Managed By"} \cup {Metrics[q] : q \in 1..Len(Metrics)})

TopContributorsPage(p, rs) ==
    IF rs.status # "running" \/ p # "Top Contributors" THEN rs
    ELSE LET guarded == DataPageHeader(rs, p, "Top Contributors to Delay & Cost")
         IN  IF guarded.status # "running" THEN guarded
             ELSE ManagersBlock(VendorsBlock(Render(guarded, "markdown", "Which vendors")))

ConclusionPage(p, rs) ==
    IF rs.status # "running" \/ p # "Conclusion & Insights" THEN rs
    ELSE Render(Render([rs EXCEPT !.log = Append(@, Step("page", p))],
                       "title", "Conclusion & Insights"),
                "markdown", "Key Findings")

\* The end of the script.
Finish(rs) ==
    IF rs.status = "running" THEN [rs EXCEPT !.status = "done"] ELSE rs

\* The script from top to bottom, for the selected page and the uploader's value.
Script(p, f) ==
    Finish(
      ConclusionPage(p,
        TopContributorsPage(p,
          DelayPricingPage(p,
            WelcomePage(p,
              ReadAndFeatureEngineer(f, StartRun))))))

\* ------------------------------------------------------------------------
\* The CSV files a user may upload
\* ------------------------------------------------------------------------
NextDay(c) ==
    IF c.d < DaysInMonth(c.y, c.m) THEN [c EXCEPT !.d = @ + 1]
    ELSE IF c.m < 12 THEN [c EXCEPT !.m = @ + 1, !.d = 1]
    ELSE [c EXCEPT !.y = @ + 1, !.m = 1, !.d = 1]

RECURSIVE AddDays(_, _)
AddDays(c, n) == IF n <= 0 THEN c ELSE AddDays(NextDay(c), n - 1)

FirstDate == DateCell(2020, 12, 31, 0)

\* A record with every column: the two date cells as given, the rest by index.
FullRow(i, delivered, scheduled) ==
    [c \in Columns |->
        CASE c = "Delivered to Client Date" -> delivered
          [] c = "Scheduled Delivery Date" -> scheduled
          [] c = "Shipment Mode" -> Num(1 + (i % 2))
          [] c = "Pack Price" -> Num(1 + (i % 4))
          [] c = "Line Item Value" -> Num(10 * i)
          [] c = "Vendor" -> Num(i)
          [] c = "Managed By" -> Num(1 + (i % 3))]

CsvFile(cols, rows) ==
    [present |-> TRUE, columns |-> cols,
     rows |-> [i \in 1..Len(rows) |-> [c \in cols |-> rows[i][c]]]]

\* Date texts of the date family: midnight and noon of consecutive days across
\* the turn of the year, an empty cell, a text that is no date and 2021-02-30.
DateTexts ==
    {[AddDays(FirstDate, k) EXCEPT !.h = h] : k \in 0..MaxDayOffset, h \in {0, 12}}

DateCells ==
    DateTexts \cup {EmptyCell, TextCell, DateCell(2021, 2, 30, 0)}

\* Schema family: any subset of the columns, one record, each date cell a
\* date (the leap day 2020-02-29), empty, or a text that is no date.
SchemaFiles ==
    {CsvFile(cols, <<FullRow(1, delivered, scheduled)>>) :
        cols \in SUBSET Columns,
        delivered \in {DateCell(2020, 2, 29, 0), EmptyCell, TextCell},
        scheduled \in {DateCell(2020, 2, 28, 0), EmptyCell, TextCell}}

\* A record delivered after schedule: by one day (odd i) or by two (even i).
FillerRow(i) ==
    IF i % 2 = 1 THEN FullRow(i, AddDays(FirstDate, 1), FirstDate)
    ELSE FullRow(i, DateCell(2021, 1, 3, 0), DateCell(2021, 1, 1, 0))

\* Date family: every column, up to MaxRows records, one of them with any
\* pair of date cells, the others filler records.
DateFiles ==
    {CsvFile(Columns,
             [i \in 1..n |-> IF i = free THEN FullRow(i, delivered, scheduled)
                             ELSE FillerRow(i)]) :
        n \in 1..MaxRows, free \in 1..MaxRows, delivered \in DateCells, scheduled \in DateCells}

\* Grouping family: every column, n records with a vendor each and three
\* managers in turn, delays between -2 and 2 days in a pattern set by mult,
\* optionally one record without delivered date and one without vendor.
GroupFiles ==
    {CsvFile(Columns,
             [i \in 1..n |->
                 [FullRow(i,
                          IF i = hole THEN EmptyCell
                          ELSE AddDays(FirstDate, (mult * i + (i \div 4)) % 5),
                          AddDays(FirstDate, 2))
                  EXCEPT !["Vendor"] = IF i = blank THEN NaN ELSE @]]) :
        n \in 1..MaxGroupRows, mult \in 0..MaxMult, hole \in {0, 1, MaxGroupRows},
        blank \in {0, 2}}

Files == SchemaFiles \cup DateFiles \cup GroupFiles

\* ------------------------------------------------------------------------
\* State
\* ------------------------------------------------------------------------
VARIABLES
    csv,        \* the CSV file on the user's disk
    page,       \* value of the sidebar radio
    file,       \* value of the file uploader
    df,         \* the script's df after the last run
    vendors,    \* the script's vendors frame after the last run
    managers,   \* the script's managers frame after the last run
    sidebar,    \* sidebar elements of the last run
    out,        \* page elements rendered by the last run, in order
    log,        \* steps the last run took, in order
    status      \* how the last run ended

vars == <<csv, page, file, df, vendors, managers, sidebar, out, log, status>>

\* The framework runs the script and keeps what it produced.
Rerun(p, f) ==
    LET rs == Script(p, f)
    IN  /\ df' = rs.df
        /\ vendors' = rs.vendors
        /\ managers' = rs.managers
        /\ sidebar' = rs.sidebar
        /\ out' = rs.out
        /\ log' = rs.log
        /\ status' = rs.status

\* First load: the radio shows its first option and the uploader is empty.
Init ==
    /\ csv \in Files
    /\ page = PAGES[1]
    /\ file = NoFile
    /\ LET rs == Script(PAGES[1], NoFile)
       IN  /\ df = rs.df
           /\ vendors = rs.vendors
           /\ managers = rs.managers
           /\ sidebar = rs.sidebar
           /\ out = rs.out
           /\ log = rs.log
           /\ status = rs.status

SelectPage(p) ==
    /\ p # page
    /\ page' = p
    /\ UNCHANGED <<csv, file>>
    /\ Rerun(p, file)

UploadFile ==
    /\ ~file.present
    /\ file' = csv
    /\ UNCHANGED <<csv, page>>
    /\ Rerun(page, csv)

RemoveFile ==
    /\ file.present
    /\ file' = NoFile
    /\ UNCHANGED <<csv, page>>
    /\ Rerun(page, NoFile)

Next ==
    \/ \E i \in 1..Len(PAGES) : SelectPage(PAGES[i])
    \/ UploadFile
    \/ RemoveFile

Spec == Init /\ [][Next]_vars

\* ------------------------------------------------------------------------
\* Vocabulary of the properties
\* ------------------------------------------------------------------------
\* The last run loaded a file and appended the two derived columns.
Engineered ==
    file.present /\ df.present /\ {"delivery_delay", "Delay Label"} \subseteq df.columns

Kinds(elems) == {elems[i].kind : i \in 1..Len(elems)}

Charts(elems) == {elems[i].arg : i \in {j \in 1..Len(elems) : elems[j].kind = "plotly_chart"}}

PrevDay(c) ==
    IF c.d > 1 THEN [c EXCEPT !.d = @ - 1]
    ELSE IF c.m > 1 THEN [c EXCEPT !.m = @ - 1, !.d = DaysInMonth(c.y, c.m - 1)]
    ELSE [c EXCEPT !.y = @ - 1, !.m = 12, !.d = 31]

\* The date text n days after c (before it, for negative n), by the calendar.
RECURSIVE ShiftDays(_, _)
ShiftDays(c, n) ==
    IF n = 0 THEN c
    ELSE IF n > 0 THEN ShiftDays(NextDay(c), n - 1)
    ELSE ShiftDays(PrevDay(c), n + 1)

\* a is an earlier instant than b, read off the date texts.
Earlier(a, b) ==
    \/ a.y < b.y
    \/ a.y = b.y /\ a.m < b.m
    \/ a.y = b.y /\ a.m = b.m /\ a.d < b.d
    \/ a.y = b.y /\ a.m = b.m /\ a.d = b.d /\ a.h < b.h

\* ------------------------------------------------------------------------
\* Properties
\* ------------------------------------------------------------------------
\* C1: after feature engineering every row's Delay Label is "Early/On-Time"
\* exactly when its delivery_delay is <= 0 and "Delayed" otherwise; a delay of
\* 0 is labelled "Early/On-Time" and a delay of 1 "Delayed".
C1_LabelThreshold ==
    Engineered =>
        \A i \in 1..Len(df.rows) :
            LET d == df.rows[i]["delivery_delay"]
                l == df.rows[i]["Delay Label"]
                nonpos == ~d.nan /\ d.v <= 0
            IN  /\ l = "Early/On-Time" <=> nonpos
                /\ l = "Delayed" <=> ~nonpos
                /\ d = Num(0) => l = "Early/On-Time"
                /\ d = Num(1) => l = "Delayed"

C1_Witness ==
    /\ Engineered
    /\ \E i, j \in 1..Len(df.rows) :
          /\ df.rows[i]["delivery_delay"] = Num(0)
          /\ df.rows[i]["Delay Label"] = "Early/On-Time"
          /\ df.rows[j]["delivery_delay"] = Num(1)
          /\ df.rows[j]["Delay Label"] = "Delayed"

\* C2: for every row of an accepted upload delivery_delay is the delivered date
\* minus the scheduled date in whole days: the scheduled date moved by that many
\* days is not after the delivered date and less than a day short of it; the
\* delay is negative exactly when the delivered date precedes the scheduled one,
\* 2 for scheduled 2021-01-01 and delivered 2021-01-03, -2 for the reverse.  A
\* row without one of the dates has no delay.
C2_DelayIsDateDifference ==
    Engineered =>
        \A i \in 1..Len(df.rows) :
            LET delivered == file.rows[i]["Delivered to Client Date"]
                scheduled == file.rows[i]["Scheduled Delivery Date"]
                d == df.rows[i]["delivery_delay"]
            IN  IF delivered.k = "empty" \/ scheduled.k = "empty" THEN d.nan
                ELSE /\ ~d.nan
                     /\ ~Earlier(delivered, ShiftDays(scheduled, d.v))
                     /\ Earlier(delivered, ShiftDays(scheduled, d.v + 1))
                     /\ d.v < 0 <=> Earlier(delivered, scheduled)
                     /\ (scheduled = DateCell(2021, 1, 1, 0) /\ delivered = DateCell(2021, 1, 3, 0))
                            => d.v = 2
                     /\ (scheduled = DateCell(2021, 1, 3, 0) /\ delivered = DateCell(2021, 1, 1, 0))
                            => d.v = -2

C2_Witness ==
    /\ Engineered
    /\ \E i, j \in 1..Len(df.rows) :
          /\ file.rows[i]["Scheduled Delivery Date"] = DateCell(2021, 1, 3, 0)
          /\ file.rows[i]["Delivered to Client Date"] = DateCell(2021, 1, 1, 0)
          /\ df.rows[i]["delivery_delay"] = Num(-2)
          /\ file.rows[j]["Scheduled Delivery Date"] = DateCell(2021, 1, 1, 0)
          /\ file.rows[j]["Delivered to Client Date"] = DateCell(2021, 1, 3, 0)
          /\ df.rows[j]["delivery_delay"] = Num(2)

\* C5: with no file uploaded, "Welcome" and "Conclusion & Insights" render
\* their title and text in full, the two data pages render their title and a
\* warning and halt, and a run without a dataset renders no chart.
C5_NoDatasetPages ==
    /\ ~file.present =>
          /\ page = "Welcome" =>
                /\ out = <<Elem("title", "Supply Chain Delay & Pricing Analysis"),
                           Elem("markdown", "Why this app?")>>
                /\ status = "done"
          /\ page = "Conclusion & Insights" =>
                /\ out = <<Elem("title", "Conclusion & Insights"),
                           Elem("markdown", "Key Findings")>>
                /\ status = "done"
          /\ page = "Delay & Pricing Patterns" =>
                /\ out = <<Elem("title", "Delay & Pricing Patterns"),
                           Elem("warning", "Please upload a dataset to view this analysis.")>>
                /\ status = "stopped"
          /\ page = "Top Contributors" =>
                /\ out = <<Elem("title", "Top Contributors to Delay & Cost"),
                           Elem("warning", "Please upload a dataset to view this analysis.")>>
                /\ status = "stopped"
    /\ ~df.present => Charts(out) = {} /\ ~vendors.present /\ ~managers.present

C5_Witness ==
    /\ ~file.present
    /\ ~df.present
    /\ page = "Top Contributors"
    /\ status = "stopped"
    /\ "warning" \in Kinds(out)

C6_RejectedUpFront ==
    (/\ file.present
     /\ \A q \in 1..Len(DateCols) : DateCols[q] \in file.columns
     /\ \E i \in 1..Len(file.rows), q \in 1..Len(DateCols) :
           file.rows[i][DateCols[q]].k = "empty" \/ ~Parseable(file.rows[i][DateCols[q]]))
    => /\ status = "exception"
       /\ ~Engineered
       /\ Charts(out) = {}

\* C7: in every feature-engineered table a record has a delivery_delay value
\* if and only if it has a Delay Label.
C7_DelayIffLabel ==
    Engineered =>
        \A i \in 1..Len(df.rows) :
            ~df.rows[i]["delivery_delay"].nan
                <=> df.rows[i]["Delay Label"] \in {"Early/On-Time", "Delayed"}

\* C8: with a dataset present, an absent optional grouping column removes only
\* its own chart, without error or warning: without "Shipment Mode" the delay
\* and line-item-value box plots are rendered, without "Vendor" the manager
\* chart, without "Managed By" the vendor chart.
C8_OnlyDependentChartOmitted ==
    Engineered =>
        /\ (page = "Delay & Pricing Patterns" /\ "Shipment Mode" \notin file.columns) =>
              /\ Charts(out) = {"fig_delay", "fig_value"}
              /\ Kinds(out) \cap {"error", "warning", "exception"} = {}
        /\ (page = "Top Contributors" /\ "Vendor" \notin file.columns
                /\ "Managed By" \in file.columns) =>
              /\ Charts(out) = {"fig_managers"}
              /\ Kinds(out) \cap {"error", "warning", "exception"} = {}
        /\ (page = "Top Contributors" /\ "Managed By" \notin file.columns
                /\ "Vendor" \in file.columns) =>
              /\ Charts(out) = {"fig_vendors"}
              /\ Kinds(out) \cap {"error", "warning", "exception"} = {}

\* C9: only the two date columns are required: with both present and holding
\* dates, each of the four pages renders to completion without a fatal error,
\* whichever optional columns are absent.
C9_OptionalColumnsNotRequired ==
    (/\ file.present
     /\ \A q \in 1..Len(DateCols) : DateCols[q] \in file.columns
     /\ \A i \in 1..Len(file.rows), q \in 1..Len(DateCols) :
           file.rows[i][DateCols[q]].k = "date" /\ Parseable(file.rows[i][DateCols[q]]))
    => /\ status = "done"
       /\ "exception" \notin Kinds(out)

\* The statement of C4 for one aggregated frame and its grouping column.  A
\* group none of whose records has a delay has no mean (NaN): it is greater
\* than no other mean, and it never comes before a group that has one.
TopGroups(agg, key) ==
    agg.present =>
        LET keys == GroupKeys(df, key)
            n == Len(agg.rows)
            kept == {agg.rows[p][key].v : p \in 1..n}
            mean(g) == GroupMean(df, key, g, "delivery_delay")
        IN  /\ n <= 10
            /\ n = (IF Cardinality(keys) < 10 THEN Cardinality(keys) ELSE 10)
            /\ kept \subseteq keys
            /\ Cardinality(kept) = n
            /\ \A p \in 1..n : agg.rows[p]["delivery_delay"] = mean(agg.rows[p][key].v)
            /\ \A p \in 1..(n - 1) :
                  /\ ~MeanGt(agg.rows[p + 1]["delivery_delay"], agg.rows[p]["delivery_delay"])
                  /\ agg.rows[p]["delivery_delay"].nan => agg.rows[p + 1]["delivery_delay"].nan
            /\ \A g \in keys \ kept : \A p \in 1..n :
                  /\ ~MeanGt(mean(g), agg.rows[p]["delivery_delay"])
                  /\ agg.rows[p]["delivery_delay"].nan => mean(g).nan

\* C4: on "Top Contributors" the aggregation by Vendor, and likewise by
\* Managed By, yields one row per distinct group value, at most 10 rows,
\* ordered by mean delivery_delay non-increasing, and every group left out has
\* a mean no greater than that of every group kept.
C4_TopTenByMeanDelay ==
    TopGroups(vendors, "Vendor") /\ TopGroups(managers, "Managed By")

\* More than ten vendors, two of the kept ones with equal means and one left
\* out with a smaller mean than the last kept; managers with several records.
C4_Witness ==
    /\ page = "Top Contributors"
    /\ vendors.present /\ managers.present
    /\ Cardinality(GroupKeys(df, "Vendor")) > 10
    /\ Len(vendors.rows) = 10
    /\ \E p \in 1..9 :
          MeanEq(vendors.rows[p]["delivery_delay"], vendors.rows[p + 1]["delivery_delay"])
    /\ MeanGt(vendors.rows[1]["delivery_delay"], vendors.rows[10]["delivery_delay"])
    /\ \E g \in GroupKeys(df, "Vendor") :
          MeanGt(vendors.rows[10]["delivery_delay"], GroupMean(df, "Vendor", g, "delivery_delay"))
    /\ \E p \in 1..Len(managers.rows) : managers.rows[p]["delivery_delay"].den > 1

====
